---- MODULE Spec2Model ----
(***************************************************************************)
(* Model of the barrage_slacker gateway (src/src/main.rs): three actix     *)
(* route handlers relay an inbound request to the Slack REST API through   *)
(* one shared reqwest client, and process_response normalises the upstream *)
(* outcome into a JSON value or one of three CustomError kinds.            *)
(*                                                                         *)
(* Strings whose characters matter (the path segment, the upstream URL,    *)
(* the upstream body) are sequences of characters / lexical tokens; the    *)
(* JSON parser works on those sequences.                                   *)
(***************************************************************************)
EXTENDS Integers, Sequences, FiniteSets, TLC

\* Number of handler invocations that may be in flight at the same time.
NumHandlers == 2

Handlers == 1..NumHandlers

(***************************************************************************)
(* JSON values (serde_json::Value)                                         *)
(***************************************************************************)
JNull    == [t |-> "null"]
JBool(b) == [t |-> "bool", b |-> b]
JNum(n)  == [t |-> "num", n |-> n]
JStr(s)  == [t |-> "str", s |-> s]
JArr(a)  == [t |-> "arr", a |-> a]
\* an object is a map from keys to values (serde_json::Map)
JObj(o)  == [t |-> "obj", o |-> o]

EmptyMap == [k \in {} |-> JNull]

\* lexical tokens of a body text that denote a JSON string / number
StringLit == ("\"ok\"" :> "ok") @@ ("\"user\"" :> "user") @@ ("\"error\"" :> "error")
               @@ ("\"channel_not_found\"" :> "channel_not_found")
NumberLit == ("0" :> 0) @@ ("1" :> 1)
Whitespace == {" ", "\n"}

Fail(i) == [ok |-> FALSE, val |-> JNull, next |-> i]
Good(v, i) == [ok |-> TRUE, val |-> v, next |-> i]

RECURSIVE SkipWs(_, _)
SkipWs(text, i) ==
    IF i <= Len(text) /\ text[i] \in Whitespace THEN SkipWs(text, i + 1) ELSE i

RECURSIVE ParseValue(_, _), ParseElements(_, _, _), ParseMembers(_, _, _)

\* one JSON value starting at position i (leading whitespace skipped)
ParseValue(text, i) ==
    LET j == SkipWs(text, i) IN
    IF j > Len(text) THEN Fail(j)
    ELSE LET tok == text[j] IN
         CASE tok = "null"  -> Good(JNull, j + 1)
           [] tok = "true"  -> Good(JBool(TRUE), j + 1)
           [] tok = "false" -> Good(JBool(FALSE), j + 1)
           [] tok \in DOMAIN NumberLit -> Good(JNum(NumberLit[tok]), j + 1)
           [] tok \in DOMAIN StringLit -> Good(JStr(StringLit[tok]), j + 1)
           [] tok = "[" ->
                LET k == SkipWs(text, j + 1) IN
                IF k <= Len(text) /\ text[k] = "]"
                THEN Good(JArr(<<>>), k + 1)
                ELSE ParseElements(text, k, <<>>)
           [] tok = "{" ->
                LET k == SkipWs(text, j + 1) IN
                IF k <= Len(text) /\ text[k] = "}"
                THEN Good(JObj(EmptyMap), k + 1)
                ELSE ParseMembers(text, k, EmptyMap)
           [] OTHER -> Fail(j)

\* the elements of an array after "[" : value ("," value)* "]"
ParseElements(text, i, acc) ==
    LET v == ParseValue(text, i) IN
    IF ~v.ok THEN Fail(v.next)
    ELSE LET k == SkipWs(text, v.next) IN
         IF k > Len(text) THEN Fail(k)
         ELSE IF text[k] = "," THEN ParseElements(text, k + 1, Append(acc, v.val))
         ELSE IF text[k] = "]" THEN Good(JArr(Append(acc, v.val)), k + 1)
         ELSE Fail(k)

\* the members of an object after "{" : string ":" value ("," ...)* "}"
\* a repeated key keeps the last value (Map::insert)
ParseMembers(text, i, acc) ==
    LET j == SkipWs(text, i) IN
    IF j > Len(text) \/ text[j] \notin DOMAIN StringLit THEN Fail(j)
    ELSE LET c == SkipWs(text, j + 1) IN
         IF c > Len(text) \/ text[c] # ":" THEN Fail(c)
         ELSE LET v == ParseValue(text, c + 1) IN
              IF ~v.ok THEN Fail(v.next)
              ELSE LET k   == SkipWs(text, v.next)
                       new == (StringLit[text[j]] :> v.val) @@ acc IN
                   IF k > Len(text) THEN Fail(k)
                   ELSE IF text[k] = "," THEN ParseMembers(text, k + 1, new)
                   ELSE IF text[k] = "}" THEN Good(JObj(new), k + 1)
                   ELSE Fail(k)

\* variant: stops after the first value and ignores what follows it
from_str_lenient(text) ==
    LET v == ParseValue(text, 1) IN
    IF v.ok THEN [ok |-> TRUE, val |-> v.val] ELSE [ok |-> FALSE, val |-> JNull]

\* serde_json::from_str: one value, then only whitespace up to the end
from_str(text) ==
    LET v == ParseValue(text, 1) IN
    IF v.ok /\ SkipWs(text, v.next) > Len(text)
    THEN [ok |-> TRUE, val |-> v.val]
    ELSE [ok |-> FALSE, val |-> JNull]


(***************************************************************************)
(* Error kinds and their outbound mapping                                  *)
(***************************************************************************)
CustomError == {"SlackResponseError", "BodyExtractionError", "ConversionError"}

\* impl Display for CustomError
Display(e) ==
    CASE e = "SlackResponseError"  -> "There was an error in handling the response from Slack"
      [] e = "BodyExtractionError" -> "Unable to extract response body"
      [] e = "ConversionError"     -> "Unable to convert body to json"

\* statuses of the outbound responses
HttpOk == 200
InternalServerError == 500
BadRequest == 400

\* variant: a status per error kind
status_code_by_kind(e) ==
    CASE e = "SlackResponseError"  -> 502
      [] e = "BodyExtractionError" -> 500
      [] e = "ConversionError"     -> 422

\* impl ResponseError for CustomError {} : no override, every kind takes the
\* trait's default status
status_code(e) == InternalServerError

Ok(v)  == [tag |-> "Ok", json |-> v, err |-> "none"]
Err(e) == [tag |-> "Err", json |-> JNull, err |-> e]
NoResult == [tag |-> "none", json |-> JNull, err |-> "none"]

(***************************************************************************)
(* Upstream outcomes: what `.send().await` can hand back.  `value` is the  *)
(* JSON value the upstream serialised into `text` (kind "json" only); the  *)
(* gateway never sees it, it only sees `text`.                             *)
(***************************************************************************)
UsersBody == JObj(("ok" :> JBool(TRUE)) @@ ("user" :> JArr(<<JObj(EmptyMap), JNum(1)>>)))
NotFoundBody == JObj(("ok" :> JBool(FALSE)) @@ ("error" :> JStr("channel_not_found")))

JsonOutcomes ==
    { [kind |-> "json", value |-> UsersBody,
       text |-> <<"{", "\"ok\"", ":", "true", ",", "\"user\"", ":",
                  "[", "{", "}", ",", "1", "]", "}">>],
      [kind |-> "json", value |-> NotFoundBody,
       text |-> <<" ", "{", "\"error\"", ":", " ", "\"channel_not_found\"", ",", " ",
                  "\"ok\"", ":", " ", "false", "}", "\n">>] }

TextOutcomes ==
    { [kind |-> "text", value |-> JNull, text |-> <<"n", "o", "t", " ", "j", "s", "o", "n">>],
      [kind |-> "text", value |-> JNull, text |-> <<"{", "\"ok\"", ":", "true", "}", "}">>] }

TransportError == [kind |-> "transport_error", value |-> JNull, text |-> <<>>]
UnreadableBody == [kind |-> "unreadable", value |-> JNull, text |-> <<>>]
NoOutcome      == [kind |-> "none", value |-> JNull, text |-> <<>>]

Outcomes == {TransportError, UnreadableBody} \cup JsonOutcomes \cup TextOutcomes

\* the parse of a body text as process_response reports it
Parsed(text) ==
    LET json == from_str(text) IN
    IF json.ok
    THEN [result |-> Ok(json.val), log |-> <<>>,
          stages |-> <<"transport", "read", "parse">>]
    ELSE [result |-> Err("ConversionError"), log |-> <<"Error is">>,
          stages |-> <<"transport", "read", "parse">>]

\* variant: the transport check is missing, a failed call falls through to
\* the body read
process_response_unchecked(response) ==
    IF response.kind \in {"transport_error", "unreadable"}
    THEN [result |-> Err("BodyExtractionError"), log |-> <<>>,
          stages |-> <<"transport", "read">>]
    ELSE Parsed(response.text)

\* variant: a parsed body with "ok": false is turned into an error
process_response_ok_flag(response) ==
    IF response.kind = "transport_error"
    THEN [result |-> Err("SlackResponseError"), log |-> <<"reqwest error">>,
          stages |-> <<"transport">>]
    ELSE IF response.kind = "unreadable"
    THEN [result |-> Err("BodyExtractionError"), log |-> <<>>,
          stages |-> <<"transport", "read">>]
    ELSE LET p == Parsed(response.text) IN
         IF /\ p.result.tag = "Ok"
            /\ p.result.json.t = "obj"
            /\ "ok" \in DOMAIN p.result.json.o
            /\ p.result.json.o["ok"] = JBool(FALSE)
         THEN [p EXCEPT !.result = Err("SlackResponseError")]
         ELSE p

\* variant: an unreadable body is parsed as an empty text
process_response_parse_anyway(response) ==
    IF response.kind = "transport_error"
    THEN [result |-> Err("SlackResponseError"), log |-> <<"reqwest error">>,
          stages |-> <<"transport">>]
    ELSE Parsed(response.text)

(***************************************************************************)
(* process_response: transport check, body read, JSON parse.               *)
(* Returns the result, the console lines printed and the stages run.       *)
(***************************************************************************)
process_response(response) ==
    IF response.kind = "transport_error"
    THEN [result |-> Err("SlackResponseError"),
          log    |-> <<"reqwest error">>,
          stages |-> <<"transport">>]
    ELSE IF response.kind # "unreadable"
    THEN LET json == from_str(response.text) IN
         IF json.ok
         THEN [result |-> Ok(json.val),
               log    |-> <<>>,
               stages |-> <<"transport", "read", "parse">>]
         ELSE [result |-> Err("ConversionError"),
               log    |-> <<"Error is">>,
               stages |-> <<"transport", "read", "parse">>]
    ELSE [result |-> Err("BodyExtractionError"),
          log    |-> <<>>,
          stages |-> <<"transport", "read">>]


(***************************************************************************)
(* Shared upstream client (main)                                           *)
(***************************************************************************)
\* dotenv::var("BOT_TOKEN").unwrap_or(String::new())
BotToken == "Bearer xoxb"

\* the reqwest client built once in main with its two default headers
NewClient(token) ==
    [default_headers |-> [content_type  |-> "application/x-www-form-urlencoded",
                          authorization |-> token]]

(***************************************************************************)
(* CORS middleware: .wrap(setup_cors())                                    *)
(***************************************************************************)
MaxAge == 3600

NoOrigin == "none"
Origins == {NoOrigin, "http://app.example"}

\* The builder calls of setup_cors applied to Cors::default().  default()
\* starts with no allowed origin; no call of setup_cors adds one or allows
\* all of them; send_wildcard only sets the flag.
setup_cors ==
    [all_origins     |-> FALSE,
     allowed_origins |-> {},
     send_wildcard   |-> TRUE,
     allowed_methods |-> {"GET", "POST", "PUT", "DELETE"},
     allowed_headers |-> {"authorization", "accept", "content-type"},
     max_age         |-> MaxAge]

\* origin check of the middleware: "allowed", "error" (request refused),
\* "mismatch" (passed on without CORS headers) or "not_cors" (no Origin header)
validate_origin(cors, origin, blocking) ==
    IF cors.all_origins THEN "allowed"
    ELSE IF origin = NoOrigin THEN "not_cors"
    ELSE IF origin \in cors.allowed_origins THEN "allowed"
    ELSE IF blocking THEN "error"
    ELSE "mismatch"

\* value of Access-Control-Allow-Origin on a response, NoOrigin when absent
access_control_allow_origin(cors, origin, blocking) ==
    IF validate_origin(cors, origin, blocking) # "allowed" THEN NoOrigin
    ELSE IF cors.all_origins /\ cors.send_wildcard THEN "*"
    ELSE origin

NoBody == [kind |-> "empty", json |-> JNull, text |-> ""]

\* the response the middleware gives to a request it refuses
CorsErrorResponse ==
    [status |-> BadRequest,
     body   |-> [kind |-> "text", json |-> JNull, text |-> "Origin is not allowed to make this request"],
     acao   |-> NoOrigin, allow_methods |-> {}, max_age |-> 0]

\* the response to an OPTIONS preflight request
handle_preflight(cors, origin, blocking) ==
    IF validate_origin(cors, origin, blocking) # "allowed"
    THEN CorsErrorResponse
    ELSE [status |-> HttpOk, body |-> NoBody,
          acao   |-> access_control_allow_origin(cors, origin, blocking),
          allow_methods |-> cors.allowed_methods,
          max_age       |-> cors.max_age]

\* a handler's result turned into the outbound response (web::Json responder
\* or ResponseError::error_response), with the middleware's headers added
Respond(result, origin, blocking) ==
    [status |-> IF result.tag = "Ok" THEN HttpOk ELSE status_code(result.err),
     body   |-> IF result.tag = "Ok"
                THEN [kind |-> "json", json |-> result.json, text |-> ""]
                ELSE [kind |-> "text", json |-> JNull, text |-> Display(result.err)],
     acao   |-> access_control_allow_origin(setup_cors, origin, blocking),
     allow_methods |-> {}, max_age |-> 0]

NoResponse == [status |-> 0, body |-> NoBody, acao |-> NoOrigin,
               allow_methods |-> {}, max_age |-> 0]

(***************************************************************************)
(* Inbound requests                                                        *)
(***************************************************************************)
\* FormData submissions: channel and message (message may be empty)
Forms == { [channel |-> "C123", message |-> "hello"],
           [channel |-> "C123", message |-> ""] }

\* {channel_id} path segments, as character sequences
Segments == { <<"C", "1", "2", "3">>, <<"C", " ", "&", "x">> }

NoInbound == [route |-> "none", channel |-> "", message |-> "", path |-> <<>>,
              origin |-> NoOrigin]

(***************************************************************************)
(* Upstream requests built by the handlers                                 *)
(***************************************************************************)
PostMessageUrl == <<"https://slack.com/api/chat.postMessage">>
UsersListUrl   == <<"https://slack.com/api/users.list">>
ConversationsInfo == <<"https://slack.com/api/conversations.info">>

NoForm == [k \in {} |-> ""]

\* variant: the two values swapped
MessageBody_swapped(channel, message) ==
    ("channel" :> message) @@ ("text" :> channel)

\* the HashMap send_message fills: "channel" -> channel, "text" -> message
MessageBody(channel, message) ==
    ("channel" :> channel) @@ ("text" :> message)

\* variant: the segment encoded as a query value before it is interpolated
ConversationUrl_escaped(path) ==
    ConversationsInfo \o <<"?", "channel", "=">>
        \o [i \in DOMAIN path |->
               CASE path[i] = " " -> "%20"
                 [] path[i] = "&" -> "%26"
                 [] OTHER -> path[i]]

\* format!("https://slack.com/api/conversations.info?channel={}", path)
ConversationUrl(path) ==
    ConversationsInfo \o <<"?", "channel", "=">> \o path

\* client.get(..) / client.post(..) turn their argument into a Url: parsing
\* percent-encodes a space (in the path or the query) and leaves the
\* characters that have a meaning in a query, such as "&" and "=", as they are
into_url(url) ==
    [i \in DOMAIN url |-> IF url[i] = " " THEN "%20" ELSE url[i]]

\* a request issued through the shared client: its default headers apply
Request(c, method, url, form) ==
    [method |-> method, url |-> into_url(url), form |-> form,
     headers |-> c.default_headers]


(***************************************************************************)
(* State                                                                   *)
(***************************************************************************)
VARIABLES
    client,     \* the shared reqwest client (web::Data<reqwest::Client>)
    blocking,   \* whether the middleware refuses a request of an origin not allowed
    pc,         \* per handler invocation: "idle", "awaiting" (.send().await), "responded"
    inbound,    \* the inbound request each invocation serves
    sent,       \* the upstream requests each invocation has issued
    outcome,    \* what the upstream call of each invocation gave back
    result,     \* the handler's return value
    stages,     \* the normaliser stages run for the invocation
    log,        \* the console lines printed for the invocation
    response    \* the outbound HTTP response

vars == <<client, blocking, pc, inbound, sent, outcome, result, stages, log, response>>

Init ==
    /\ client   = NewClient(BotToken)
    /\ blocking \in BOOLEAN
    /\ pc       = [r \in Handlers |-> "idle"]
    /\ inbound  = [r \in Handlers |-> NoInbound]
    /\ sent     = [r \in Handlers |-> <<>>]
    /\ outcome  = [r \in Handlers |-> NoOutcome]
    /\ result   = [r \in Handlers |-> NoResult]
    /\ stages   = [r \in Handlers |-> <<>>]
    /\ log      = [r \in Handlers |-> <<>>]
    /\ response = [r \in Handlers |-> NoResponse]

\* the middleware refuses the request: no handler runs
Refuse(r, req) ==
    /\ pc' = [pc EXCEPT ![r] = "responded"]
    /\ inbound' = [inbound EXCEPT ![r] = req]
    /\ response' = [response EXCEPT ![r] = CorsErrorResponse]
    /\ UNCHANGED <<client, blocking, sent, outcome, result, stages, log>>

\* variant: the per-call header is written into the shared client
Issue_override(r, req, printed, upstream) ==
    /\ pc' = [pc EXCEPT ![r] = "awaiting"]
    /\ inbound' = [inbound EXCEPT ![r] = req]
    /\ log' = [log EXCEPT ![r] = printed]
    /\ sent' = [sent EXCEPT ![r] = Append(@, upstream)]
    /\ client' = [client EXCEPT !.default_headers.authorization = req.channel]
    /\ UNCHANGED <<blocking, outcome, result, stages, response>>

\* the handler runs up to its `.send().await`: one upstream request issued
Issue(r, req, printed, upstream) ==
    /\ pc' = [pc EXCEPT ![r] = "awaiting"]
    /\ inbound' = [inbound EXCEPT ![r] = req]
    /\ log' = [log EXCEPT ![r] = printed]
    /\ sent' = [sent EXCEPT ![r] = Append(@, upstream)]
    /\ UNCHANGED <<client, blocking, outcome, result, stages, response>>

\* the handler resumes with the upstream outcome and returns p.result
Return(r, res, p) ==
    /\ pc' = [pc EXCEPT ![r] = "responded"]
    /\ outcome' = [outcome EXCEPT ![r] = res]
    /\ result' = [result EXCEPT ![r] = p.result]
    /\ stages' = [stages EXCEPT ![r] = p.stages]
    /\ log' = [log EXCEPT ![r] = @ \o p.log]
    /\ response' = [response EXCEPT ![r] = Respond(p.result, inbound[r].origin, blocking)]
    /\ UNCHANGED <<client, blocking, inbound, sent>>

(***************************************************************************)
(* POST /send-message                                                      *)
(***************************************************************************)
send_message(r) ==
    /\ pc[r] = "idle"
    /\ \E form \in Forms, origin \in Origins :
         LET req == [route |-> "send_message", channel |-> form.channel,
                     message |-> form.message, path |-> <<>>, origin |-> origin]
         IN  IF validate_origin(setup_cors, origin, blocking) = "error"
             THEN Refuse(r, req)
             ELSE Issue(r, req, <<"form">>,
                        Request(client, "POST", PostMessageUrl,
                                MessageBody(form.channel, form.message)))

send_message_return(r) ==
    /\ pc[r] = "awaiting"
    /\ inbound[r].route = "send_message"
    /\ \E res \in Outcomes : Return(r, res, process_response(res))

(***************************************************************************)
(* GET /users                                                              *)
(***************************************************************************)
get_users(r) ==
    /\ pc[r] = "idle"
    /\ \E origin \in Origins :
         LET req == [route |-> "get_users", channel |-> "", message |-> "",
                     path |-> <<>>, origin |-> origin]
         IN  IF validate_origin(setup_cors, origin, blocking) = "error"
             THEN Refuse(r, req)
             ELSE Issue(r, req, <<>>, Request(client, "GET", UsersListUrl, NoForm))

\* get_users checks the call itself and returns early, before process_response
get_users_check(res) ==
    IF res.kind = "transport_error"
    THEN [result |-> Err("SlackResponseError"),
          log    |-> <<"reqwest error">>,
          stages |-> <<"transport">>]
    ELSE LET p == process_response(res) IN
         [result |-> p.result, log |-> p.log, stages |-> <<"transport">> \o p.stages]

get_users_return(r) ==
    /\ pc[r] = "awaiting"
    /\ inbound[r].route = "get_users"
    /\ \E res \in Outcomes : Return(r, res, get_users_check(res))

(***************************************************************************)
(* GET /conversations/{channel_id}                                         *)
(***************************************************************************)
get_conversation_info(r) ==
    /\ pc[r] = "idle"
    /\ \E path \in Segments, origin \in Origins :
         LET req == [route |-> "get_conversation_info", channel |-> "", message |-> "",
                     path |-> path, origin |-> origin]
         IN  IF validate_origin(setup_cors, origin, blocking) = "error"
             THEN Refuse(r, req)
             ELSE Issue(r, req, <<>>, Request(client, "GET", ConversationUrl(path), NoForm))

get_conversation_info_return(r) ==
    /\ pc[r] = "awaiting"
    /\ inbound[r].route = "get_conversation_info"
    /\ \E res \in Outcomes : Return(r, res, process_response(res))

(***************************************************************************)
(* OPTIONS preflight, answered by the middleware                           *)
(***************************************************************************)
preflight(r) ==
    /\ pc[r] = "idle"
    /\ \E origin \in Origins :
         /\ inbound' = [inbound EXCEPT ![r] =
                          [route |-> "preflight", channel |-> "", message |-> "",
                           path |-> <<>>, origin |-> origin]]
         /\ response' = [response EXCEPT ![r] =
                          handle_preflight(setup_cors, origin, blocking)]
    /\ pc' = [pc EXCEPT ![r] = "responded"]
    /\ UNCHANGED <<client, blocking, sent, outcome, result, stages, log>>

\* the response has gone out; the worker takes the next request
finish(r) ==
    /\ pc[r] = "responded"
    /\ pc' = [pc EXCEPT ![r] = "idle"]
    /\ inbound' = [inbound EXCEPT ![r] = NoInbound]
    /\ sent' = [sent EXCEPT ![r] = <<>>]
    /\ outcome' = [outcome EXCEPT ![r] = NoOutcome]
    /\ result' = [result EXCEPT ![r] = NoResult]
    /\ stages' = [stages EXCEPT ![r] = <<>>]
    /\ log' = [log EXCEPT ![r] = <<>>]
    /\ response' = [response EXCEPT ![r] = NoResponse]
    /\ UNCHANGED <<client, blocking>>

Next ==
    \E r \in Handlers :
        \/ send_message(r)
        \/ send_message_return(r)
        \/ get_users(r)
        \/ get_users_return(r)
        \/ get_conversation_info(r)
        \/ get_conversation_info_return(r)
        \/ preflight(r)
        \/ finish(r)

Spec == Init /\ [][Next]_vars


(***************************************************************************)
(* Properties                                                              *)
(***************************************************************************)
Range(s) == {s[i] : i \in DOMAIN s}

\* the handler of invocation r has been entered / has returned
Entered(r)  == pc[r] \in {"awaiting", "responded"} /\ sent[r] # <<>>
Returned(r) == pc[r] = "responded" /\ result[r].tag # "none"

\* the result each upstream outcome must give, by the first stage that fails
Expected(o) ==
    CASE o.kind = "transport_error" -> Err("SlackResponseError")
      [] o.kind = "unreadable"      -> Err("BodyExtractionError")
      [] o.kind = "text"            -> Err("ConversionError")
      [] o.kind = "json"            -> Ok(o.value)

\* console lines that report a failure (all but send_message's form print)
FailureLines(l) == Cardinality({i \in DOMAIN l : l[i] # "form"})

\* C1: on every route, an upstream call that fails at the transport level
\* makes the handler return SlackResponseError, with exactly one upstream
\* request issued for the inbound request and neither the body read nor the
\* JSON parse attempted.
C1_TransportFailure ==
    \A r \in Handlers :
        (Returned(r) /\ outcome[r].kind = "transport_error") =>
            /\ result[r] = Err("SlackResponseError")
            /\ Len(sent[r]) = 1
            /\ "read" \notin Range(stages[r])
            /\ "parse" \notin Range(stages[r])

C1_Witness ==
    \E r, q \in Handlers :
        /\ Returned(r) /\ outcome[r].kind = "transport_error"
        /\ inbound[r].route = "get_users"
        /\ Returned(q) /\ outcome[q].kind = "transport_error"
        /\ inbound[q].route = "send_message"

\* C2: on every route, a body that is valid JSON is returned as success with
\* exactly the value the body denotes, also when it holds "ok": false.
C2_JsonPassedThrough ==
    \A r \in Handlers :
        (Returned(r) /\ outcome[r].kind = "json") =>
            /\ result[r] = Ok(outcome[r].value)
            /\ response[r].status = 200
            /\ response[r].body = [kind |-> "json", json |-> outcome[r].value, text |-> ""]

C2_Witness ==
    \E r \in Handlers :
        /\ Returned(r)
        /\ outcome[r].kind = "json"
        /\ outcome[r].value.o["ok"] = JBool(FALSE)
        /\ result[r].tag = "Ok"

\* C3: on every route, a body read as text that is not valid JSON gives
\* ConversionError, never another error kind or a success.
C3_MalformedBody ==
    \A r \in Handlers :
        (Returned(r) /\ outcome[r].kind = "text") =>
            result[r] = Err("ConversionError")

C3_Witness ==
    \E r, q \in Handlers :
        /\ Returned(r) /\ outcome[r].text = <<"n", "o", "t", " ", "j", "s", "o", "n">>
        /\ outcome[r].kind = "text"
        /\ Returned(q) /\ outcome[q].kind = "text" /\ outcome[q].text # outcome[r].text

\* C4: each upstream outcome gives exactly the result of the first stage that
\* fails (transport, body read, JSON parse), each stage with its own error
\* kind; the stages run stop at the failing one, so an unreadable body gives
\* BodyExtractionError without a parse.
C4_StageGuard ==
    \A r \in Handlers :
        Returned(r) =>
            /\ result[r] = Expected(outcome[r])
            /\ (outcome[r].kind = "transport_error" =>
                    Range(stages[r]) = {"transport"})
            /\ (outcome[r].kind = "unreadable" =>
                    /\ result[r].err = "BodyExtractionError"
                    /\ Range(stages[r]) = {"transport", "read"}
                    /\ stages[r][Len(stages[r])] = "read")
            /\ (outcome[r].kind \in {"text", "json"} =>
                    stages[r][Len(stages[r])] = "parse")

C4_Witness ==
    \E r \in Handlers :
        /\ Returned(r)
        /\ outcome[r].kind = "unreadable"
        /\ result[r].err = "BodyExtractionError"

\* C5: a handler's success goes out as HTTP 200 with a JSON body; each of
\* the three error kinds goes out with the same status 500 and a message
\* text that differs from kind to kind.
C5_UniformErrorStatus ==
    /\ \A r \in Handlers :
          Returned(r) =>
             IF result[r].tag = "Ok"
             THEN response[r].status = 200 /\ response[r].body.kind = "json"
             ELSE /\ response[r].status = 500
                  /\ response[r].body.kind = "text"
                  /\ response[r].body.text = Display(result[r].err)
    /\ \A e1, e2 \in CustomError : e1 # e2 => Display(e1) # Display(e2)

C5_Witness ==
    \E r, q \in Handlers :
        /\ Returned(r) /\ Returned(q)
        /\ result[r].tag = "Err" /\ result[q].tag = "Err"
        /\ result[r].err # result[q].err
        /\ response[r].status = response[q].status

\* C6: a send_message invocation issues exactly one upstream POST to the
\* post-message endpoint whose form has the two fields channel (the inbound
\* channel) and text (the inbound message, possibly empty) and no other.
C6_SendMessageForm ==
    \A r \in Handlers :
        (Entered(r) /\ inbound[r].route = "send_message") =>
            /\ Len(sent[r]) = 1
            /\ sent[r][1].method = "POST"
            /\ sent[r][1].url = <<"https://slack.com/api/chat.postMessage">>
            /\ DOMAIN sent[r][1].form = {"channel", "text"}
            /\ sent[r][1].form["channel"] = inbound[r].channel
            /\ sent[r][1].form["text"] = inbound[r].message

C6_Witness ==
    \E r \in Handlers :
        /\ Returned(r)
        /\ inbound[r].route = "send_message"
        /\ inbound[r].message = ""
        /\ sent[r][1].form["text"] = ""

\* C7: every response carries Access-Control-Allow-Origin: *, and a
\* preflight request is answered with the methods GET/POST/PUT/DELETE and
\* max-age 3600.
C7_WildcardOnEveryResponse ==
    \A r \in Handlers :
        pc[r] = "responded" =>
            /\ response[r].acao = "*"
            /\ (inbound[r].route = "preflight" =>
                    /\ response[r].allow_methods = {"GET", "POST", "PUT", "DELETE"}
                    /\ response[r].max_age = 3600)

\* C8: get_conversation_info issues exactly one upstream GET whose URL is
\* the conversation-info endpoint, "?channel=" and the path segment
\* verbatim; a space in the segment stays a space.
C8_ConversationUrl ==
    \A r \in Handlers :
        (Entered(r) /\ inbound[r].route = "get_conversation_info") =>
            /\ Len(sent[r]) = 1
            /\ sent[r][1].method = "GET"
            /\ sent[r][1].url =
                 <<"https://slack.com/api/conversations.info", "?", "channel", "=">>
                    \o inbound[r].path
            /\ (" " \in Range(inbound[r].path) =>
                    " " \in Range(sent[r][1].url) /\ "%20" \notin Range(sent[r][1].url))

\* C8 (amended): get_conversation_info issues exactly one upstream GET whose
\* URL is the conversation-info endpoint, "?channel=" and the path segment,
\* which the handler interpolates without escaping: C123 gives channel=C123,
\* and query delimiters such as "&" stay as they are.  A space does not stay
\* a space: the client's URL parsing sends it as %20.
C8_ConversationUrlSent ==
    \A r \in Handlers :
        (Entered(r) /\ inbound[r].route = "get_conversation_info") =>
            LET url  == sent[r][1].url
                path == inbound[r].path
                base == <<"https://slack.com/api/conversations.info", "?", "channel", "=">>
            IN  /\ Len(sent[r]) = 1
                /\ sent[r][1].method = "GET"
                /\ Len(url) = Len(base) + Len(path)
                /\ SubSeq(url, 1, Len(base)) = base
                /\ \A i \in DOMAIN path :
                      url[Len(base) + i] = IF path[i] = " " THEN "%20" ELSE path[i]
                /\ (" " \notin Range(path) => url = base \o path)

C8_Witness ==
    \E r, q \in Handlers :
        /\ Entered(r) /\ Entered(q)
        /\ inbound[r].route = "get_conversation_info"
        /\ inbound[r].path = <<"C", " ", "&", "x">>
        /\ "&" \in Range(sent[r][1].url)
        /\ inbound[q].route = "get_conversation_info"
        /\ inbound[q].path = <<"C", "1", "2", "3">>

\* everything the model holds about one invocation
Slot(r) == <<pc[r], inbound[r], sent[r], outcome[r], result[r], stages[r],
             log[r], response[r]>>

\* C9: no step changes the shared client, so its default headers stay those
\* of construction; a step of one invocation leaves every other invocation
\* untouched, requests carry the construction-time headers, and the result
\* an invocation returns is the one its own upstream outcome determines.
C9_ClientImmutable ==
    [][ /\ client' = client
        /\ client.default_headers =
              [content_type  |-> "application/x-www-form-urlencoded",
               authorization |-> BotToken]
        /\ \A r, q \in Handlers :
              (r # q /\ Slot(r)' # Slot(r)) => Slot(q)' = Slot(q)
        /\ \A r \in Handlers :
              /\ (pc'[r] = "awaiting" =>
                     sent'[r][1].headers = client.default_headers)
              /\ ((pc'[r] = "responded" /\ result'[r].tag # "none") =>
                     result'[r] = Expected(outcome'[r])) ]_vars

C9_Witness ==
    \E r, q \in Handlers :
        /\ r # q
        /\ pc[r] = "awaiting" /\ pc[q] = "awaiting"
        /\ inbound[r].route # inbound[q].route
        /\ sent[r][1].headers = sent[q][1].headers

\* C10: every error a handler returns has been reported by exactly one
\* console line of that request.
C10_EveryFailureLogged ==
    \A r \in Handlers :
        (Returned(r) /\ result[r].tag = "Err") => FailureLines(log[r]) = 1

====
